---- MODULE Spec2Model ----
(***************************************************************************)
(* Model of src/src/read.rs: the three implementations of the sealed trait *)
(* Read (IoRead over a std::io channel, SliceRead over an immutable slice, *)
(* MutSliceRead over a mutable slice).                                     *)
(*                                                                         *)
(* The reader object is the variable self, a record with the fields of the *)
(* Rust struct.  Every trait method is an operator from the struct before  *)
(* the call (and the argument) to [self |-> the struct after the call,     *)
(* res |-> what the call returned], and an action that applies it.         *)
(* Rust indices are 0-based, TLA+ sequences 1-based: slice[i] of the code  *)
(* is slice[i + 1] here and slice[a..b] is SubSeq(slice, a + 1, b).        *)
(***************************************************************************)
EXTENDS Integers, Sequences, FiniteSets, TLC

\* ---------------------------------------------------------------- bounds
\* longest region / longest channel (bytes plus interruptions) explored
MaxLen == 3
\* discard() is explored until the cursor is this far past the region's end
MaxOverrun == 1

\* usize::MAX, scaled down to 2^31 - 1 (the code's checked_add and its
\* wrapping n -= 1 are modelled against it)
USIZE_MAX == 2147483647
\* what a channel read answers when it is interrupted (ErrorKind::Interrupted)
INTR == -1

\* The code moves and copies bytes and never reads their value, so two byte
\* values tell any two positions apart; all sequences over them are explored.
Byte == {0, 1}
\* the lengths a caller asks for: every length that fits, one that does not,
\* and the largest usize (read_into gets a buffer, so no usize::MAX there)
Lens == (0..(MaxLen + 1)) \cup {USIZE_MAX}
BufLens == 0..(MaxLen + 1)

Min(a, b) == IF a <= b THEN a ELSE b

RECURSIVE SeqsUpTo(_, _)
SeqsUpTo(S, n) ==
    IF n = 0 THEN {<<>>}
    ELSE LET shorter == SeqsUpTo(S, n - 1)
         IN  shorter \cup {Append(s, x) : s \in {t \in shorter : Len(t) = n - 1}, x \in S}

\* ---------------------------------------------------------------- results
\* What a call returns.  tag: "Some"/"None" (Ok(Some(b)), Ok(None)), "Ok"
\* (Ok(()); read_into carries the bytes written to buf), "Borrowed" (with the
\* view), "Copied", "View" (view_buffer's slice), "Unit" (clear_buffer,
\* discard), "Eof" (Error::syntax(EofWhileParsingValue, off)), "NoMem"
\* (Error::syntax(IndefiniteOutOfMemory, off)), "Io" (Error::io), "Panic".
Res(tag, bytes, off) == [tag |-> tag, bytes |-> bytes, off |-> off]
Out(s, r) == [self |-> s, res |-> r]

\* usize addition with overflow detection (index.checked_add(n)): <<>> is None
checked_add(a, n) == IF n > USIZE_MAX - a THEN <<>> ELSE <<a + n>>

\* [T]::rotate_left(mid) on the sequence s
rotate_left(s, mid) == SubSeq(s, mid + 1, Len(s)) \o SubSeq(s, 1, mid)

\* ------------------------------------------------------------ MutSliceRead
MutSliceRead_new(slice) ==
    [kind |-> "MutSliceRead", slice |-> slice, index |-> 0,
     buffer_start |-> 0, buffer_end |-> 0]

\* end reporting the cursor, not the region's length, as the error's offset
MutSliceRead_end_at_index(s, n) ==
    LET e == checked_add(s.index, n)
    IN  IF e # <<>> /\ e[1] <= Len(s.slice)
        THEN Res("Ok", <<>>, e[1])
        ELSE Res("Eof", <<>>, s.index)

MutSliceRead_end(s, n) ==
    LET e == checked_add(s.index, n)
    IN  IF e # <<>> /\ e[1] <= Len(s.slice)
        THEN Res("Ok", <<>>, e[1])
        ELSE Res("Eof", <<>>, Len(s.slice))

MutSliceRead_next(s) ==
    IF s.index < Len(s.slice)
    THEN Out([s EXCEPT !.index = s.index + 1], Res("Some", <<s.slice[s.index + 1]>>, 0))
    ELSE Out(s, Res("None", <<>>, 0))

MutSliceRead_peek(s) ==
    IF s.index < Len(s.slice)
    THEN Out(s, Res("Some", <<s.slice[s.index + 1]>>, 0))
    ELSE Out(s, Res("None", <<>>, 0))

MutSliceRead_clear_buffer(s) ==
    Out([s EXCEPT !.buffer_start = s.index, !.buffer_end = s.index], Res("Unit", <<>>, 0))

\* read_to_buffer rotating by the requested length instead of by the gap
\* between the accumulation window and the cursor
MutSliceRead_read_to_buffer_rotate_n(s, n) ==
    LET e == MutSliceRead_end(s, n)
    IN  IF e.tag # "Ok" THEN Out(s, e)
        ELSE IF ~(s.buffer_end <= s.index) THEN Out(s, Res("Panic", <<>>, 0))
        ELSE LET end == e.off
                 rotated == rotate_left(SubSeq(s.slice, s.buffer_end + 1, end), n)
             IN  Out([s EXCEPT !.slice = SubSeq(s.slice, 1, s.buffer_end) \o rotated
                                           \o SubSeq(s.slice, end + 1, Len(s.slice)),
                               !.buffer_end = s.buffer_end + n,
                               !.index = end],
                     Res("Ok", <<>>, 0))

\* read_to_buffer rotating everything from buffer_end to the region's end
MutSliceRead_read_to_buffer_rotates_tail(s, n) ==
    LET e == MutSliceRead_end(s, n)
    IN  IF e.tag # "Ok" THEN Out(s, e)
        ELSE IF ~(s.buffer_end <= s.index) THEN Out(s, Res("Panic", <<>>, 0))
        ELSE LET end == e.off
                 rotated == rotate_left(SubSeq(s.slice, s.buffer_end + 1, Len(s.slice)),
                                        s.index - s.buffer_end)
             IN  Out([s EXCEPT !.slice = SubSeq(s.slice, 1, s.buffer_end) \o rotated,
                               !.buffer_end = s.buffer_end + n,
                               !.index = end],
                     Res("Ok", <<>>, 0))

\* read_to_buffer leaving the cursor where it was
MutSliceRead_read_to_buffer_stays(s, n) ==
    LET e == MutSliceRead_end(s, n)
    IN  IF e.tag # "Ok" THEN Out(s, e)
        ELSE IF ~(s.buffer_end <= s.index) THEN Out(s, Res("Panic", <<>>, 0))
        ELSE LET end == e.off
                 rotated == rotate_left(SubSeq(s.slice, s.buffer_end + 1, end),
                                        s.index - s.buffer_end)
             IN  Out([s EXCEPT !.slice = SubSeq(s.slice, 1, s.buffer_end) \o rotated
                                           \o SubSeq(s.slice, end + 1, Len(s.slice)),
                               !.buffer_end = s.buffer_end + n],
                     Res("Ok", <<>>, 0))

\* read_to_buffer leaving the cursor at the end of the accumulation window
MutSliceRead_read_to_buffer_rewinds(s, n) ==
    LET e == MutSliceRead_end(s, n)
    IN  IF e.tag # "Ok" THEN Out(s, e)
        ELSE IF ~(s.buffer_end <= s.index) THEN Out(s, Res("Panic", <<>>, 0))
        ELSE LET end == e.off
                 rotated == rotate_left(SubSeq(s.slice, s.buffer_end + 1, end),
                                        s.index - s.buffer_end)
             IN  Out([s EXCEPT !.slice = SubSeq(s.slice, 1, s.buffer_end) \o rotated
                                           \o SubSeq(s.slice, end + 1, Len(s.slice)),
                               !.buffer_end = s.buffer_end + n,
                               !.index = s.buffer_end + n],
                     Res("Ok", <<>>, 0))

MutSliceRead_read_to_buffer(s, n) ==
    LET e == MutSliceRead_end(s, n)
    IN  IF e.tag # "Ok" THEN Out(s, e)
        ELSE IF ~(s.buffer_end <= s.index) THEN Out(s, Res("Panic", <<>>, 0))
        ELSE LET end == e.off
                 rotated == rotate_left(SubSeq(s.slice, s.buffer_end + 1, end),
                                        s.index - s.buffer_end)
             IN  Out([s EXCEPT !.slice = SubSeq(s.slice, 1, s.buffer_end) \o rotated
                                           \o SubSeq(s.slice, end + 1, Len(s.slice)),
                               !.buffer_end = s.buffer_end + n,
                               !.index = end],
                     Res("Ok", <<>>, 0))

\* read_either without the update of buffer_start and buffer_end
MutSliceRead_read_either_keeps_window(s, n) ==
    LET e == MutSliceRead_end(s, n)
    IN  IF e.tag # "Ok" THEN Out(s, e)
        ELSE Out([s EXCEPT !.index = e.off],
                 Res("Borrowed", SubSeq(s.slice, s.index + 1, e.off), 0))

MutSliceRead_read_either(s, n) ==
    LET e == MutSliceRead_end(s, n)
    IN  IF e.tag # "Ok" THEN Out(s, e)
        ELSE Out([s EXCEPT !.index = e.off, !.buffer_start = e.off, !.buffer_end = e.off],
                 Res("Borrowed", SubSeq(s.slice, s.index + 1, e.off), 0))

\* &self.slice[buffer_start..buffer_end] panics unless
\* buffer_start <= buffer_end <= slice.len()
MutSliceRead_view_buffer(s) ==
    IF s.buffer_start <= s.buffer_end /\ s.buffer_end <= Len(s.slice)
    THEN Out(s, Res("View", SubSeq(s.slice, s.buffer_start + 1, s.buffer_end), 0))
    ELSE Out(s, Res("Panic", <<>>, 0))

MutSliceRead_read_into(s, len) ==
    LET e == MutSliceRead_end(s, len)
    IN  IF e.tag # "Ok" THEN Out(s, e)
        ELSE Out([s EXCEPT !.index = e.off], Res("Ok", SubSeq(s.slice, s.index + 1, e.off), 0))

MutSliceRead_discard(s) ==
    Out([s EXCEPT !.index = s.index + 1], Res("Unit", <<>>, 0))

MutSliceRead_offset(s) == s.index

\* --------------------------------------------------------------- SliceRead
\* cfg(feature = "std"): the struct has the field scratch only in a std build
SliceRead_new(slice, std) ==
    IF std THEN [kind |-> "SliceRead", slice |-> slice, scratch |-> <<>>, index |-> 0]
           ELSE [kind |-> "SliceRead", slice |-> slice, index |-> 0]

HasStd(s) == "scratch" \in DOMAIN s

SliceRead_offset(s) == s.index

SliceRead_end(s, n) ==
    LET e == checked_add(s.index, n)
    IN  IF e # <<>> /\ e[1] <= Len(s.slice)
        THEN Res("Ok", <<>>, e[1])
        ELSE Res("Eof", <<>>, Len(s.slice))

SliceRead_next(s) ==
    IF s.index < Len(s.slice)
    THEN Out([s EXCEPT !.index = s.index + 1], Res("Some", <<s.slice[s.index + 1]>>, 0))
    ELSE Out(s, Res("None", <<>>, 0))

SliceRead_peek(s) ==
    IF s.index < Len(s.slice)
    THEN Out(s, Res("Some", <<s.slice[s.index + 1]>>, 0))
    ELSE Out(s, Res("None", <<>>, 0))

SliceRead_clear_buffer(s) ==
    IF HasStd(s) THEN Out([s EXCEPT !.scratch = <<>>], Res("Unit", <<>>, 0))
                 ELSE Out(s, Res("Unit", <<>>, 0))

\* read_to_buffer without std checking the bounds before it gives up
SliceRead_read_to_buffer_checks_end(s, n) ==
    LET e == SliceRead_end(s, n)
    IN  IF HasStd(s)
        THEN IF e.tag # "Ok" THEN Out(s, e)
             ELSE Out([s EXCEPT !.scratch = s.scratch \o SubSeq(s.slice, s.index + 1, e.off),
                               !.index = e.off],
                      Res("Ok", <<>>, 0))
        ELSE IF e.tag # "Ok" THEN Out(s, e)
             ELSE Out(s, Res("NoMem", <<>>, SliceRead_offset(s)))

SliceRead_read_to_buffer(s, n) ==
    IF HasStd(s)
    THEN LET e == SliceRead_end(s, n)
         IN  IF e.tag # "Ok" THEN Out(s, e)
             ELSE Out([s EXCEPT !.scratch = s.scratch \o SubSeq(s.slice, s.index + 1, e.off),
                               !.index = e.off],
                      Res("Ok", <<>>, 0))
    ELSE Out(s, Res("NoMem", <<>>, SliceRead_offset(s)))

\* read_either taking the view after the cursor has moved
SliceRead_read_either_moves_first(s, n) ==
    LET e == SliceRead_end(s, n)
    IN  IF e.tag # "Ok" THEN Out(s, e)
        ELSE Out([s EXCEPT !.index = e.off],
                 Res("Borrowed", SubSeq(s.slice, e.off + 1, e.off), 0))

SliceRead_read_either(s, n) ==
    LET e == SliceRead_end(s, n)
    IN  IF e.tag # "Ok" THEN Out(s, e)
        ELSE Out([s EXCEPT !.index = e.off],
                 Res("Borrowed", SubSeq(s.slice, s.index + 1, e.off), 0))

SliceRead_view_buffer(s) ==
    IF HasStd(s) THEN Out(s, Res("View", s.scratch, 0))
                 ELSE Out(s, Res("View", <<>>, 0))

\* read_into consuming what is left of the region before it fails
SliceRead_read_into_drains(s, len) ==
    LET e == SliceRead_end(s, len)
    IN  IF e.tag # "Ok" THEN Out([s EXCEPT !.index = Len(s.slice)], e)
        ELSE Out([s EXCEPT !.index = e.off], Res("Ok", SubSeq(s.slice, s.index + 1, e.off), 0))

SliceRead_read_into(s, len) ==
    LET e == SliceRead_end(s, len)
    IN  IF e.tag # "Ok" THEN Out(s, e)
        ELSE Out([s EXCEPT !.index = e.off], Res("Ok", SubSeq(s.slice, s.index + 1, e.off), 0))

SliceRead_discard(s) ==
    Out([s EXCEPT !.index = s.index + 1], Res("Unit", <<>>, 0))

\* ------------------------------------------------------------------ IoRead
\* The channel R: io::Read is [events, end].  events is what its coming read
\* calls deliver, in order: a byte, or INTR for a call answered with
\* ErrorKind::Interrupted.  A read delivers the bytes up to the next INTR (a
\* short read) or as many as the buffer holds.  With events used up, every
\* read answers Ok(0) when end = "eof" and an error of another kind when
\* end = "err".
Channel(events, end) == [events |-> events, end |-> end]

RECURSIVE RunLen(_)
RunLen(ev) == IF ev = <<>> \/ ev[1] = INTR THEN 0 ELSE 1 + RunLen(Tail(ev))

\* OffsetReader::read passing the bytes on without adding them to offset
OffsetReader_read_uncounted(r, k) ==
    LET ev == r.reader.events
    IN  IF ev = <<>>
        THEN [r |-> r, tag |-> IF r.reader.end = "eof" THEN "Ok" ELSE "Err", bytes |-> <<>>]
        ELSE IF ev[1] = INTR
        THEN [r |-> [r EXCEPT !.reader.events = Tail(ev)], tag |-> "Interrupted", bytes |-> <<>>]
        ELSE LET count == Min(k, RunLen(ev))
             IN  [r |-> [r EXCEPT !.reader.events = SubSeq(ev, count + 1, Len(ev))],
                  tag |-> "Ok", bytes |-> SubSeq(ev, 1, count)]

\* OffsetReader::read on a buffer of k >= 1 bytes: [r |-> the OffsetReader
\* afterwards, tag |-> "Ok" | "Interrupted" | "Err", bytes |-> those delivered]
OffsetReader_read(r, k) ==
    LET ev == r.reader.events
    IN  IF ev = <<>>
        THEN [r |-> r, tag |-> IF r.reader.end = "eof" THEN "Ok" ELSE "Err", bytes |-> <<>>]
        ELSE IF ev[1] = INTR
        THEN [r |-> [r EXCEPT !.reader.events = Tail(ev)], tag |-> "Interrupted", bytes |-> <<>>]
        ELSE LET count == Min(k, RunLen(ev))
             IN  [r |-> [r EXCEPT !.reader.events = SubSeq(ev, count + 1, Len(ev)),
                                  !.offset = r.offset + count],
                  tag |-> "Ok", bytes |-> SubSeq(ev, 1, count)]

IoRead_new(reader) ==
    [kind |-> "IoRead", reader |-> [reader |-> reader, offset |-> 0],
     scratch |-> <<>>, ch |-> <<>>]

IoRead_offset(s) == s.reader.offset

\* next_inner handing ErrorKind::Interrupted on like any other error
IoRead_next_inner_surfaces(r) ==
    LET rd == OffsetReader_read(r, 1)
    IN  CASE rd.tag \in {"Interrupted", "Err"} -> [r |-> rd.r, res |-> Res("Io", <<>>, 0)]
          [] rd.tag = "Ok" /\ rd.bytes = <<>> -> [r |-> rd.r, res |-> Res("None", <<>>, 0)]
          [] OTHER -> [r |-> rd.r, res |-> Res("Some", rd.bytes, 0)]

\* next_inner: [r |-> the OffsetReader afterwards, res |-> Some / None / Io]
RECURSIVE IoRead_next_inner(_)
IoRead_next_inner(r) ==
    LET rd == OffsetReader_read(r, 1)
    IN  CASE rd.tag = "Interrupted" -> IoRead_next_inner(rd.r)
          [] rd.tag = "Err" -> [r |-> rd.r, res |-> Res("Io", <<>>, 0)]
          [] rd.tag = "Ok" /\ rd.bytes = <<>> -> [r |-> rd.r, res |-> Res("None", <<>>, 0)]
          [] OTHER -> [r |-> rd.r, res |-> Res("Some", rd.bytes, 0)]

\* next reading the channel without looking at the pushback slot
IoRead_next_skips_ch(s) ==
    LET i == IoRead_next_inner(s.reader)
    IN  Out([s EXCEPT !.reader = i.r], i.res)

IoRead_next(s) ==
    IF s.ch # <<>>
    THEN Out([s EXCEPT !.ch = <<>>], Res("Some", s.ch, 0))
    ELSE LET i == IoRead_next_inner(s.reader)
         IN  Out([s EXCEPT !.reader = i.r], i.res)

IoRead_peek(s) ==
    IF s.ch # <<>>
    THEN Out(s, Res("Some", s.ch, 0))
    ELSE LET i == IoRead_next_inner(s.reader)
         IN  IF i.res.tag = "Io"
             THEN Out([s EXCEPT !.reader = i.r], i.res)
             ELSE Out([s EXCEPT !.reader = i.r, !.ch = i.res.bytes], i.res)

\* Take::read_to_end: reads until limit bytes are taken, the channel answers
\* Ok(0), or it fails with an error other than Interrupted; the bytes read are
\* appended to the vector in every case.
\* [r, ok |-> whether it ended Ok(read), read |-> the bytes appended]
RECURSIVE take_read_to_end(_, _, _)
take_read_to_end(r, limit, read) ==
    IF limit = 0 THEN [r |-> r, ok |-> TRUE, read |-> read]
    ELSE LET rd == OffsetReader_read(r, limit)
         IN  CASE rd.tag = "Interrupted" -> take_read_to_end(rd.r, limit, read)
               [] rd.tag = "Err" -> [r |-> rd.r, ok |-> FALSE, read |-> read]
               [] rd.tag = "Ok" /\ rd.bytes = <<>> -> [r |-> rd.r, ok |-> TRUE, read |-> read]
               [] OTHER -> take_read_to_end(rd.r, limit - Len(rd.bytes), read \o rd.bytes)

\* io::Read::read_exact (the default method, over OffsetReader::read)
\* [r, tag |-> "Ok" | "UnexpectedEof" | "Err", read |-> the bytes written to buf]
RECURSIVE read_exact(_, _, _)
read_exact(r, len, read) ==
    IF len = 0 THEN [r |-> r, tag |-> "Ok", read |-> read]
    ELSE LET rd == OffsetReader_read(r, len)
         IN  CASE rd.tag = "Interrupted" -> read_exact(rd.r, len, read)
               [] rd.tag = "Err" -> [r |-> rd.r, tag |-> "Err", read |-> read]
               [] rd.tag = "Ok" /\ rd.bytes = <<>> ->
                      [r |-> rd.r, tag |-> "UnexpectedEof", read |-> read]
               [] OTHER -> read_exact(rd.r, len - Len(rd.bytes), read \o rd.bytes)

\* 16 * 1024
ReserveCap == 16384

\* reserving room for the whole request at once
reserve_whole_request(n) == n

\* cmp::min(n, 16 * 1024): the additional capacity read_to_buffer asks
\* scratch.reserve for, as its first statement
reserve_additional(n) == Min(n, ReserveCap)

\* n -= 1 on a usize: with overflow checks (a debug build) n = 0 panics,
\* without them it wraps to usize::MAX.  checks is the build's setting.
\* The result carries, as reserve, what scratch.reserve was asked for.
IoRead_read_to_buffer(s, n0, checks) ==
    LET pending == s.ch # <<>>
        pushed  == s.scratch \o s.ch
        Reserved(o) == [self |-> o.self, res |-> o.res, reserve |-> reserve_additional(n0)]
    IN  IF pending /\ n0 = 0 /\ checks
        THEN Reserved(Out([s EXCEPT !.scratch = pushed, !.ch = <<>>], Res("Panic", <<>>, 0)))
        ELSE LET n == IF ~pending THEN n0 ELSE IF n0 = 0 THEN USIZE_MAX ELSE n0 - 1
                 t == take_read_to_end(s.reader, n, <<>>)
                 s1 == [s EXCEPT !.scratch = pushed \o t.read, !.ch = <<>>, !.reader = t.r]
             IN  CASE t.ok /\ Len(t.read) = n -> Reserved(Out(s1, Res("Ok", <<>>, 0)))
                   [] t.ok -> Reserved(Out(s1, Res("Eof", <<>>, IoRead_offset(s1))))
                   [] OTHER -> Reserved(Out(s1, Res("Io", <<>>, 0)))

IoRead_clear_buffer(s) == Out([s EXCEPT !.scratch = <<>>], Res("Unit", <<>>, 0))

IoRead_read_either(s, n, checks) ==
    LET o == IoRead_read_to_buffer(IoRead_clear_buffer(s).self, n, checks)
    IN  IF o.res.tag = "Ok" THEN [o EXCEPT !.res = Res("Copied", <<>>, 0)] ELSE o

IoRead_view_buffer(s) == Out(s, Res("View", s.scratch, 0))

IoRead_read_into(s, len) ==
    LET x  == read_exact(s.reader, len, <<>>)
        s1 == [s EXCEPT !.reader = x.r]
    IN  CASE x.tag = "Ok" -> Out(s1, Res("Ok", x.read, 0))
          [] x.tag = "UnexpectedEof" -> Out(s1, Res("Eof", <<>>, IoRead_offset(s1)))
          [] OTHER -> Out(s1, Res("Io", <<>>, 0))

\* discard leaving the pushback slot as it is
IoRead_discard_keeps_ch(s) == Out(s, Res("Unit", <<>>, 0))

IoRead_discard(s) == Out([s EXCEPT !.ch = <<>>], Res("Unit", <<>>, 0))

\* impl Read for IoRead: the method op called with arg
IoRead_call(s, op, arg, checks) ==
    CASE op = "next" -> IoRead_next(s)
      [] op = "peek" -> IoRead_peek(s)
      [] op = "read_either" -> IoRead_read_either(s, arg, checks)
      [] op = "clear_buffer" -> IoRead_clear_buffer(s)
      [] op = "read_to_buffer" -> IoRead_read_to_buffer(s, arg, checks)
      [] op = "view_buffer" -> IoRead_view_buffer(s)
      [] op = "read_into" -> IoRead_read_into(s, arg)
      [] op = "discard" -> IoRead_discard(s)

\* ------------------------------------------------------------- trait Read
\* The methods as the deserializer calls them, on whichever implementation.
Trait_next(s) ==
    CASE s.kind = "IoRead" -> IoRead_next(s)
      [] s.kind = "SliceRead" -> SliceRead_next(s)
      [] s.kind = "MutSliceRead" -> MutSliceRead_next(s)

Trait_discard(s) ==
    CASE s.kind = "IoRead" -> IoRead_discard(s)
      [] s.kind = "SliceRead" -> SliceRead_discard(s)
      [] s.kind = "MutSliceRead" -> MutSliceRead_discard(s)

Trait_offset(s) ==
    CASE s.kind = "IoRead" -> IoRead_offset(s)
      [] s.kind = "SliceRead" -> SliceRead_offset(s)
      [] s.kind = "MutSliceRead" -> MutSliceRead_offset(s)

\* ----------------------------------------------------------- state machine
\* self   the reader (IoRead, SliceRead or MutSliceRead struct)
\* last   the last call: its name, argument, result, and the struct before it
\* input  the bytes the reader was created over (the region's first content,
\*        or the bytes the channel will deliver), never changed
\* lent   per region position, the byte a Borrowed view handed out there
\*        (<<>> where no view was handed out)
\* proto  where the caller is in clear_buffer, read_to_buffer(a),
\*        next/read_into ..., read_to_buffer(b) on MutSliceRead
\* delivered  the bytes an IoRead has handed to its caller, in call order
\* twin   in SpecPair: beside the MutSliceRead, a SliceRead (feature std)
\*        created over the same bytes and given the same calls, with its
\*        last result; NoTwin throughout Spec
VARIABLES self, last, input, lent, proto, delivered, twin

vars == <<self, last, input, lent, proto, delivered, twin>>

IsByte(e) == e # INTR

NoProto == [st |-> "none", i1 |-> 0, a |-> 0, i2 |-> 0, b |-> 0]

\* clean: clear_buffer was called and read_either was not called since
\* inscope: view_buffer was only ever called with clean
NoTwin == [self |-> <<>>, res |-> Res("Unit", <<>>, 0), clean |-> FALSE, inscope |-> TRUE]

Start(s, bytes) ==
    /\ self = s
    /\ last = [op |-> "new", arg |-> 0, res |-> Res("Unit", <<>>, 0), pre |-> s,
               reserved |-> 0]
    /\ input = bytes
    /\ lent = [i \in 1..(IF s.kind = "IoRead" THEN 0 ELSE Len(bytes)) |-> <<>>]
    /\ proto = NoProto
    /\ delivered = <<>>
    /\ twin = NoTwin

Init ==
    \/ \E events \in SeqsUpTo(Byte \cup {INTR}, MaxLen), end \in {"eof", "err"} :
           Start(IoRead_new(Channel(events, end)), SelectSeq(events, IsByte))
    \/ \E slice \in SeqsUpTo(Byte, MaxLen), std \in BOOLEAN :
           Start(SliceRead_new(slice, std), slice)
    \/ \E slice \in SeqsUpTo(Byte, MaxLen) : Start(MutSliceRead_new(slice), slice)

Lend(out) ==
    IF out.res.tag = "Borrowed"
    THEN [i \in DOMAIN lent |->
            IF self.index < i /\ i <= self.index + Len(out.res.bytes)
            THEN <<out.res.bytes[i - self.index]>> ELSE lent[i]]
    ELSE lent

Track(op, arg, out) ==
    IF self.kind # "MutSliceRead" THEN NoProto
    ELSE CASE op = "clear_buffer" -> [NoProto EXCEPT !.st = "begun"]
           [] op = "read_to_buffer" /\ out.res.tag = "Ok" /\ proto.st = "begun" ->
                  [proto EXCEPT !.st = "one", !.i1 = self.index, !.a = arg]
           [] op = "read_to_buffer" /\ out.res.tag = "Ok" /\ proto.st = "one" ->
                  [proto EXCEPT !.st = "two", !.i2 = self.index, !.b = arg]
           [] op \in {"next", "read_into"} /\ proto.st = "one" -> proto
           [] op = "view_buffer" -> proto
           [] OTHER -> NoProto

\* What the call hands to the caller of an IoRead: the byte next returns,
\* the bytes read_into writes, the bytes read_to_buffer and read_either append
\* to scratch, and the byte peek returned when discard drops it.
Delivered(op, out) ==
    IF self.kind # "IoRead" THEN <<>>
    ELSE delivered \o
         CASE op = "next" /\ out.res.tag = "Some" -> out.res.bytes
           [] op = "read_into" /\ out.res.tag = "Ok" -> out.res.bytes
           [] op = "read_to_buffer" ->
                  SubSeq(out.self.scratch, Len(self.scratch) + 1, Len(out.self.scratch))
           [] op = "read_either" -> out.self.scratch
           [] op = "discard" -> self.ch
           [] OTHER -> <<>>

\* The same call on the SliceRead twin.  The twin is followed as long as
\* every view_buffer came with clean; after that it is dropped.
TwinCall(op, arg) ==
    LET t == twin.self
        o == CASE op = "next" -> SliceRead_next(t)
               [] op = "peek" -> SliceRead_peek(t)
               [] op = "read_either" -> SliceRead_read_either(t, arg)
               [] op = "clear_buffer" -> SliceRead_clear_buffer(t)
               [] op = "read_to_buffer" -> SliceRead_read_to_buffer(t, arg)
               [] op = "view_buffer" -> SliceRead_view_buffer(t)
               [] op = "read_into" -> SliceRead_read_into(t, arg)
               [] op = "discard" -> SliceRead_discard(t)
        clean == IF op = "clear_buffer" THEN TRUE
                 ELSE IF op = "read_either" THEN FALSE ELSE twin.clean
    IN  IF ~twin.inscope \/ (op = "view_buffer" /\ ~twin.clean)
        THEN [NoTwin EXCEPT !.inscope = FALSE]
        ELSE [self |-> o.self, res |-> o.res, clean |-> clean, inscope |-> TRUE]

\* One call of a trait method: what it does to the reader and the record
\* kept of it.  A panic ends the session: nothing is called on the reader
\* afterwards.
Step(op, arg, out) ==
    /\ last.res.tag # "Panic"
    /\ self' = out.self
    /\ last' = [op |-> op, arg |-> arg, res |-> out.res, pre |-> self,
                reserved |-> IF "reserve" \in DOMAIN out THEN out.reserve ELSE 0]
    /\ lent' = Lend(out)
    /\ proto' = Track(op, arg, out)
    /\ delivered' = Delivered(op, out)
    /\ UNCHANGED input

\* One call on a reader of the given kind.
Call(op, arg, out) == Step(op, arg, out) /\ UNCHANGED twin

\* One call made on a MutSliceRead and on its SliceRead twin.
Pair(op, arg, out) == Step(op, arg, out) /\ twin' = TwinCall(op, arg)

\* index += 1 is followed until the cursor is MaxOverrun past the region
CanDiscard == self.index < Len(self.slice) + MaxOverrun

IoNext == self.kind = "IoRead" /\ Call("next", 0, IoRead_next(self))
IoPeek == self.kind = "IoRead" /\ Call("peek", 0, IoRead_peek(self))
IoReadEither ==
    \E n \in Lens, checks \in BOOLEAN :
        self.kind = "IoRead" /\ Call("read_either", n, IoRead_read_either(self, n, checks))
IoClearBuffer == self.kind = "IoRead" /\ Call("clear_buffer", 0, IoRead_clear_buffer(self))
IoReadToBuffer ==
    \E n \in Lens, checks \in BOOLEAN :
        self.kind = "IoRead" /\ Call("read_to_buffer", n, IoRead_read_to_buffer(self, n, checks))
IoViewBuffer == self.kind = "IoRead" /\ Call("view_buffer", 0, IoRead_view_buffer(self))
IoReadInto == \E len \in BufLens : self.kind = "IoRead" /\ Call("read_into", len, IoRead_read_into(self, len))
IoDiscard == self.kind = "IoRead" /\ Call("discard", 0, IoRead_discard(self))

SliceNext == self.kind = "SliceRead" /\ Call("next", 0, SliceRead_next(self))
SlicePeek == self.kind = "SliceRead" /\ Call("peek", 0, SliceRead_peek(self))
SliceReadEither ==
    \E n \in Lens : self.kind = "SliceRead" /\ Call("read_either", n, SliceRead_read_either(self, n))
SliceClearBuffer == self.kind = "SliceRead" /\ Call("clear_buffer", 0, SliceRead_clear_buffer(self))
SliceReadToBuffer ==
    \E n \in Lens : self.kind = "SliceRead" /\ Call("read_to_buffer", n, SliceRead_read_to_buffer(self, n))
SliceViewBuffer == self.kind = "SliceRead" /\ Call("view_buffer", 0, SliceRead_view_buffer(self))
SliceReadInto ==
    \E len \in BufLens : self.kind = "SliceRead" /\ Call("read_into", len, SliceRead_read_into(self, len))
SliceDiscard ==
    self.kind = "SliceRead" /\ CanDiscard /\ Call("discard", 0, SliceRead_discard(self))

MutNext == self.kind = "MutSliceRead" /\ Call("next", 0, MutSliceRead_next(self))
MutPeek == self.kind = "MutSliceRead" /\ Call("peek", 0, MutSliceRead_peek(self))
MutReadEither ==
    \E n \in Lens : self.kind = "MutSliceRead" /\ Call("read_either", n, MutSliceRead_read_either(self, n))
MutClearBuffer == self.kind = "MutSliceRead" /\ Call("clear_buffer", 0, MutSliceRead_clear_buffer(self))
MutReadToBuffer ==
    \E n \in Lens : self.kind = "MutSliceRead" /\ Call("read_to_buffer", n, MutSliceRead_read_to_buffer(self, n))
MutViewBuffer == self.kind = "MutSliceRead" /\ Call("view_buffer", 0, MutSliceRead_view_buffer(self))
MutReadInto ==
    \E len \in BufLens : self.kind = "MutSliceRead" /\ Call("read_into", len, MutSliceRead_read_into(self, len))
MutDiscard ==
    self.kind = "MutSliceRead" /\ CanDiscard /\ Call("discard", 0, MutSliceRead_discard(self))

Next ==
    \/ IoNext \/ IoPeek \/ IoReadEither \/ IoClearBuffer \/ IoReadToBuffer
    \/ IoViewBuffer \/ IoReadInto \/ IoDiscard
    \/ SliceNext \/ SlicePeek \/ SliceReadEither \/ SliceClearBuffer \/ SliceReadToBuffer
    \/ SliceViewBuffer \/ SliceReadInto \/ SliceDiscard
    \/ MutNext \/ MutPeek \/ MutReadEither \/ MutClearBuffer \/ MutReadToBuffer
    \/ MutViewBuffer \/ MutReadInto \/ MutDiscard

Spec == Init /\ [][Next]_vars

\* A MutSliceRead and a SliceRead with feature std created over the same
\* bytes and driven by the same calls.
InitPair ==
    \E slice \in SeqsUpTo(Byte, MaxLen) :
        /\ self = MutSliceRead_new(slice)
        /\ last = [op |-> "new", arg |-> 0, res |-> Res("Unit", <<>>, 0), pre |-> self,
                   reserved |-> 0]
        /\ input = slice
        /\ lent = [i \in 1..Len(slice) |-> <<>>]
        /\ proto = NoProto
        /\ delivered = <<>>
        /\ twin = [NoTwin EXCEPT !.self = SliceRead_new(slice, TRUE)]

PairNext == self.kind = "MutSliceRead" /\ Pair("next", 0, MutSliceRead_next(self))
PairPeek == self.kind = "MutSliceRead" /\ Pair("peek", 0, MutSliceRead_peek(self))
PairReadEither ==
    \E n \in Lens : self.kind = "MutSliceRead" /\ Pair("read_either", n, MutSliceRead_read_either(self, n))
PairClearBuffer == self.kind = "MutSliceRead" /\ Pair("clear_buffer", 0, MutSliceRead_clear_buffer(self))
PairReadToBuffer ==
    \E n \in Lens : self.kind = "MutSliceRead" /\ Pair("read_to_buffer", n, MutSliceRead_read_to_buffer(self, n))
PairViewBuffer == self.kind = "MutSliceRead" /\ Pair("view_buffer", 0, MutSliceRead_view_buffer(self))
PairReadInto ==
    \E len \in BufLens : self.kind = "MutSliceRead" /\ Pair("read_into", len, MutSliceRead_read_into(self, len))
PairDiscard == self.kind = "MutSliceRead" /\ CanDiscard /\ Pair("discard", 0, MutSliceRead_discard(self))

NextPair ==
    \/ PairNext \/ PairPeek \/ PairReadEither \/ PairClearBuffer \/ PairReadToBuffer
    \/ PairViewBuffer \/ PairReadInto \/ PairDiscard

SpecPair == InitPair /\ [][NextPair]_vars

\* ------------------------------------------------------------------ claims
IsMut == self.kind = "MutSliceRead"
IsSlice == self.kind = "SliceRead"
IsIo == self.kind = "IoRead"
OnBuffer(s) == s.kind \in {"SliceRead", "MutSliceRead"}

\* the bytes the channel of an IoRead has still to deliver
ChannelBytes(s) == SelectSeq(s.reader.reader.events, IsByte)

\* the number of input bytes not yet handed to the caller
Remaining(s) ==
    IF s.kind = "IoRead" THEN Len(s.ch) + Len(ChannelBytes(s))
    ELSE IF s.index <= Len(s.slice) THEN Len(s.slice) - s.index ELSE 0

\* C1: on MutSliceRead, after any sequence of calls,
\* buffer_start <= buffer_end <= index <= region length.
\* (Fails: discard() with the cursor at the end of the region leaves
\* index = length + 1.)
C1_WindowInvariant ==
    IsMut => /\ self.buffer_start <= self.buffer_end
             /\ self.buffer_end <= self.index
             /\ self.index <= Len(self.slice)

\* C2: on MutSliceRead no call lowers buffer_end, no call changes a byte at
\* a position below the buffer_end it found, and every byte a Borrowed view
\* handed out is still in its place in every later state.
C2_BorrowedBytesFrozen ==
    IsMut =>
        /\ self.buffer_end >= last.pre.buffer_end
        /\ Len(self.slice) = Len(last.pre.slice)
        /\ \A i \in 1..Min(last.pre.buffer_end, Len(self.slice)) :
               self.slice[i] = last.pre.slice[i]
        /\ \A i \in DOMAIN lent : lent[i] # <<>> => self.slice[i] = lent[i][1]

\* C2 happens: a view was handed out and a later read_to_buffer has moved
\* bytes of the region
C2_Witness ==
    /\ IsMut
    /\ \E i \in DOMAIN lent : lent[i] # <<>>
    /\ last.op = "read_to_buffer" /\ last.res.tag = "Ok"
    /\ self.slice # last.pre.slice

\* C3: on MutSliceRead, after clear_buffer, read_to_buffer(a), any next /
\* read_into calls, read_to_buffer(b), view_buffer has length a + b and is
\* the a input bytes at the first call's cursor followed by the b input bytes
\* at the second call's cursor.
C3_TwoFragments ==
    IsMut /\ proto.st = "two" =>
        LET v == MutSliceRead_view_buffer(self).res
        IN  /\ v.tag = "View"
            /\ Len(v.bytes) = proto.a + proto.b
            /\ v.bytes = SubSeq(input, proto.i1 + 1, proto.i1 + proto.a)
                         \o SubSeq(input, proto.i2 + 1, proto.i2 + proto.b)

\* C3 happens: two non-empty fragments with consumed bytes between them, the
\* region rearranged, and view_buffer called
C3_Witness ==
    /\ IsMut /\ proto.st = "two"
    /\ proto.a >= 1 /\ proto.b >= 1 /\ proto.i2 > proto.i1 + proto.a
    /\ self.slice # input
    /\ last.op = "view_buffer" /\ last.res.tag = "View" /\ Len(last.res.bytes) = 2

\* the last call asked read_into, read_to_buffer or read_either for more
\* bytes than the input had left
AskedTooMuch ==
    /\ last.op \in {"read_into", "read_to_buffer", "read_either"}
    /\ last.arg > Remaining(last.pre)

\* C4 as claimed: on every backend a read_into, read_to_buffer or read_either
\* call asking for more bytes than remain fails with the end-of-input error
\* and leaves offset() where it was.
C4_FailsWithoutAdvancing ==
    AskedTooMuch =>
        /\ last.res.tag = "Eof"
        /\ Trait_offset(self) = Trait_offset(last.pre)

\* C4 amended: such a call always fails.  On SliceRead and MutSliceRead it
\* fails with the end-of-input error (read_to_buffer of a SliceRead built
\* without std: with IndefiniteOutOfMemory) and offset() is unchanged.  On
\* IoRead it has consumed every byte the channel still held, so offset() has
\* grown by that many, and the error is end-of-input when the channel ended
\* and the I/O error when the channel failed.
C4_Amended ==
    AskedTooMuch =>
        IF OnBuffer(last.pre)
        THEN /\ last.res.tag = (IF last.pre.kind = "SliceRead" /\ ~HasStd(last.pre)
                                   /\ last.op = "read_to_buffer"
                                THEN "NoMem" ELSE "Eof")
             /\ Trait_offset(self) = Trait_offset(last.pre)
             /\ self.index = last.pre.index
        ELSE /\ last.res.tag = (IF last.pre.reader.reader.end = "eof" THEN "Eof" ELSE "Io")
             /\ Trait_offset(self) = Trait_offset(last.pre) + Len(ChannelBytes(last.pre))
             /\ ChannelBytes(self) = <<>>

\* C4 happens: a request for more than is left has failed with the
\* end-of-input error on a channel that still held bytes, and has consumed them
C4_Witness ==
    /\ AskedTooMuch
    /\ IsIo /\ last.res.tag = "Eof"
    /\ Len(ChannelBytes(last.pre)) >= 2
    /\ Trait_offset(self) = Trait_offset(last.pre) + Len(ChannelBytes(last.pre))

\* C5: on IoRead, read_either(n) with at least n bytes left (a pending
\* peeked byte counted) returns Copied, and view_buffer is then exactly the
\* next n undelivered input bytes, the pending byte first.
\* (Fails for n = 0 with a peeked byte pending: n -= 1 underflows.)
C5_CopiesExactlyN ==
    (last.op = "read_either" /\ last.pre.kind = "IoRead" /\ last.arg <= Remaining(last.pre)) =>
        /\ last.res.tag = "Copied"
        /\ LET v == IoRead_view_buffer(self).res.bytes
           IN  /\ Len(v) = last.arg
               /\ v = SubSeq(last.pre.ch \o ChannelBytes(last.pre), 1, last.arg)

\* C6: on SliceRead and MutSliceRead, read_either(n) with index + n within
\* the region returns Borrowed, the view has length n and is the region's
\* bytes at [index, index + n) for the index before the call, and the index
\* afterwards is index + n.
C6_BorrowsInPlace ==
    (last.op = "read_either" /\ OnBuffer(last.pre)
        /\ last.arg <= Len(last.pre.slice) - last.pre.index) =>
        /\ last.res.tag = "Borrowed"
        /\ Len(last.res.bytes) = last.arg
        /\ last.res.bytes = SubSeq(last.pre.slice, last.pre.index + 1, last.pre.index + last.arg)
        /\ self.index = last.pre.index + last.arg

\* C6 happens: a non-empty view borrowed from the middle of a region, on
\* either implementation
C6_Witness ==
    /\ last.op = "read_either" /\ OnBuffer(self)
    /\ last.res.tag = "Borrowed" /\ Len(last.res.bytes) >= 2
    /\ last.pre.index >= 1

\* the last call was a peek that returned a byte
Peeked == last.op = "peek" /\ last.res.tag = "Some"

\* 1-based position in input of the byte the reader would deliver next
\* (IoRead: offset() counts a byte held in the pushback slot)
NextPos(s) ==
    IF s.kind = "IoRead" THEN IoRead_offset(s) - Len(s.ch) + 1 ELSE s.index + 1

\* what next() has to return for the input byte at 1-based position p: the
\* byte, or end of input behind the last byte (on a channel that fails
\* instead of ending, the channel's error)
Deliver(s, p) ==
    IF p <= Len(input) THEN Res("Some", <<input[p]>>, 0)
    ELSE IF s.kind = "IoRead" /\ s.reader.reader.end = "err" THEN Res("Io", <<>>, 0)
    ELSE Res("None", <<>>, 0)

\* C7 as claimed: on every backend, when peek() returns a byte, next() right
\* after it returns the same byte, and offset() is then one more than it was
\* before the peek().
C7_PeekThenNext ==
    Peeked =>
        LET n == Trait_next(self)
        IN  /\ n.res = last.res
            /\ Trait_offset(n.self) = Trait_offset(last.pre) + 1

\* C7 amended: next() returns the byte peek() returned; offset() is then one
\* more than before the peek(), except on IoRead when a peeked byte was
\* already pending before the peek(): offset() counted that byte already and
\* is unchanged.
C7_Amended ==
    Peeked =>
        LET n == Trait_next(self)
            pending == last.pre.kind = "IoRead" /\ last.pre.ch # <<>>
        IN  /\ n.res = last.res
            /\ Trait_offset(n.self) = Trait_offset(last.pre) + (IF pending THEN 0 ELSE 1)

\* C7 happens: next() has returned the byte a peek() on IoRead left pending,
\* without moving offset()
C7_Witness ==
    /\ last.op = "next" /\ last.res.tag = "Some"
    /\ last.pre.kind = "IoRead" /\ last.pre.ch = last.res.bytes
    /\ Trait_offset(self) = Trait_offset(last.pre)

C9_DiscardAlwaysAdvances ==
    (/\ last.op = "discard"
     /\ last.pre.kind = "IoRead" => last.pre.ch = <<>>
     /\ Trait_next(last.pre).res.tag = "Some") =>
        Trait_next(self).res = Deliver(last.pre, NextPos(last.pre) + 1)

\* C10: on every backend no call, successful or failing, lowers offset().
C10_OffsetMonotonic ==
    Trait_offset(self) >= Trait_offset(last.pre)

\* C10 happens: a failing call has moved offset() (IoRead), and a
\* read_to_buffer has moved the index of a MutSliceRead across a gap
C10_Witness ==
    \/ /\ IsIo /\ last.res.tag = "Eof"
       /\ Trait_offset(self) > Trait_offset(last.pre)
    \/ /\ IsMut /\ last.op = "read_to_buffer" /\ last.res.tag = "Ok"
       /\ last.pre.buffer_end < last.pre.index
       /\ Trait_offset(self) > Trait_offset(last.pre)

\* C11: on an IoRead, in every reachable state offset() is the number of
\* bytes the channel has handed to the reader so far, a byte that peek holds
\* in ch counted; and on a new reader over a channel of at least three bytes
\* b1 b2 b3 .., peek(), next(), read_to_buffer(2) return b1, b1 and Ok and
\* leave view_buffer() = [b2, b3] and offset() = 3.
C11_OffsetCountsChannelBytes ==
    IsIo =>
      /\ IoRead_offset(self) = Len(input) - Len(ChannelBytes(self))
      /\ (last.op = "new" /\ Len(input) >= 3) =>
            \A checks \in BOOLEAN :
                LET p == IoRead_peek(self)
                    n == IoRead_next(p.self)
                    a == IoRead_read_to_buffer(n.self, 2, checks)
                IN  /\ p.res = Res("Some", <<input[1]>>, 0)
                    /\ n.res = Res("Some", <<input[1]>>, 0)
                    /\ a.res = Res("Ok", <<>>, 0)
                    /\ IoRead_view_buffer(a.self).res = Res("View", <<input[2], input[3]>>, 0)
                    /\ IoRead_offset(a.self) = 3

\* after peek(), next(): read_to_buffer(2) has left [b2, b3] and offset 3
C11_Witness ==
    /\ IsIo /\ last.op = "read_to_buffer" /\ last.arg = 2 /\ last.res.tag = "Ok"
    /\ last.pre.scratch = <<>> /\ last.pre.ch = <<>> /\ IoRead_offset(last.pre) = 1
    /\ delivered = SubSeq(input, 1, 3)
    /\ self.scratch = <<input[2], input[3]>>
    /\ IoRead_offset(self) = 3

\* the last call asked a SliceRead or MutSliceRead for n bytes with index + n
\* beyond the region's length (index + n overflowing usize included)
PastTheEnd ==
    /\ OnBuffer(last.pre)
    /\ last.op \in {"read_either", "read_to_buffer", "read_into"}
    /\ last.arg > Len(last.pre.slice) - last.pre.index

\* C12 as claimed: on SliceRead and MutSliceRead, read_either(n),
\* read_to_buffer(n) and read_into of n bytes with index + n beyond the
\* region's length (overflow included) fail with the end-of-input error whose
\* offset is the region's length, and leave index, buffer_start, buffer_end,
\* the accumulated bytes and the region as they were.
C12_EofAtRegionLength ==
    PastTheEnd =>
        /\ last.res = Res("Eof", <<>>, Len(last.pre.slice))
        /\ self = last.pre

\* C12 amended: the same, except that read_to_buffer of a SliceRead built
\* without std fails with IndefiniteOutOfMemory at the current index; it too
\* leaves the reader as it was.
C12_Amended ==
    PastTheEnd =>
        /\ last.res = (IF last.pre.kind = "SliceRead" /\ ~HasStd(last.pre)
                          /\ last.op = "read_to_buffer"
                       THEN Res("NoMem", <<>>, last.pre.index)
                       ELSE Res("Eof", <<>>, Len(last.pre.slice)))
        /\ self = last.pre

\* C12 happens: with bytes accumulated and the cursor inside a MutSliceRead
\* region, read_to_buffer(usize::MAX) overflowed index + n and failed with the
\* region's length
C12_Witness ==
    /\ PastTheEnd /\ IsMut
    /\ last.op = "read_to_buffer" /\ last.arg = USIZE_MAX
    /\ last.pre.index >= 1 /\ last.pre.index < Len(last.pre.slice)
    /\ last.pre.buffer_start < last.pre.buffer_end
    /\ last.res = Res("Eof", <<>>, Len(self.slice))

\* the IoRead s over the channel that delivers the same bytes and ends the
\* same way but never answers Interrupted
Uninterrupted(s) == [s EXCEPT !.reader.reader.events = ChannelBytes(s)]

\* the last call read past at least one Interrupted answer of the channel
RodeOutInterrupt ==
    \E i \in 1..(Len(last.pre.reader.reader.events) - Len(self.reader.reader.events)) :
        last.pre.reader.reader.events[i] = INTR

\* C13: on an IoRead no call returns the channel's Interrupted answer: each
\* call retries the read and ends with the result, the reader state and the
\* delivered bytes that the same call has on the channel without the
\* Interrupted answers.
C13_InterruptsRetried ==
    (IsIo /\ last.op # "new") =>
        \E checks \in BOOLEAN :
            LET o == IoRead_call(Uninterrupted(last.pre), last.op, last.arg, checks)
            IN  /\ o.res = last.res
                /\ o.self = Uninterrupted(self)
                /\ RodeOutInterrupt => last.res.tag # "Io" \/ last.pre.reader.reader.end = "err"

\* C13 happens: read_to_buffer met an Interrupted answer between the bytes
\* it was reading and still returned Ok with all of them
C13_Witness ==
    /\ IsIo /\ last.op = "read_to_buffer" /\ last.res.tag = "Ok"
    /\ RodeOutInterrupt
    /\ last.pre.reader.reader.events[1] # INTR
    /\ Len(self.scratch) >= 2

\* C14: on a SliceRead built without std, read_to_buffer(n) fails for every
\* n in every state with IndefiniteOutOfMemory at the current offset and
\* leaves the reader as it was, and view_buffer() is the empty view in every
\* state.
C14_NoStdCannotAccumulate ==
    (IsSlice /\ ~HasStd(self)) =>
        /\ SliceRead_view_buffer(self) = Out(self, Res("View", <<>>, 0))
        /\ last.op = "view_buffer" => last.res = Res("View", <<>>, 0)
        /\ \A n \in Lens :
               SliceRead_read_to_buffer(self, n) =
                   Out(self, Res("NoMem", <<>>, SliceRead_offset(self)))
        /\ last.op = "read_to_buffer" =>
               /\ last.res = Res("NoMem", <<>>, SliceRead_offset(last.pre))
               /\ self = last.pre

\* C14 happens: with the cursor inside the region, read_to_buffer for more
\* than is left has failed with IndefiniteOutOfMemory at the cursor
C14_Witness ==
    /\ IsSlice /\ ~HasStd(self)
    /\ last.op = "read_to_buffer" /\ last.arg > Len(self.slice) - self.index
    /\ self.index >= 1 /\ self.index < Len(self.slice)
    /\ last.res = Res("NoMem", <<>>, self.index)

\* C15: on an IoRead, what read_to_buffer(n) (alone or inside read_either)
\* asks scratch to reserve before it reads is min(n, 16384) bytes, so never
\* more than 16 KiB whatever n is; beyond that scratch grows only by the
\* bytes that arrive: the byte taken from ch and those the channel delivers
\* to this call.
C15_ReserveCapped ==
    (IsIo /\ last.op \in {"read_to_buffer", "read_either"}) =>
        /\ last.reserved = (IF last.arg <= 16384 THEN last.arg ELSE 16384)
        /\ last.reserved <= 16 * 1024
        /\ Len(self.scratch)
               = (IF last.op = "read_either" THEN 0 ELSE Len(last.pre.scratch))
                 + Len(last.pre.ch) + (IoRead_offset(self) - IoRead_offset(last.pre))

\* C15 happens: read_to_buffer(usize::MAX) asked for 16384 bytes of capacity
\* and scratch grew by the two bytes the channel still had
C15_Witness ==
    /\ IsIo /\ last.op = "read_to_buffer" /\ last.arg = USIZE_MAX
    /\ last.reserved = 16384
    /\ Len(self.scratch) = Len(last.pre.scratch) + 2
    /\ last.res.tag = "Eof"

\* C16: on a MutSliceRead, buffer_end <= index holds in every reachable
\* state, whatever the order of the calls, so the assertion at the head of
\* read_to_buffer holds at every call and read_to_buffer never panics.
C16_AssertionHolds ==
    IsMut =>
        /\ self.buffer_end <= self.index
        /\ last.op = "read_to_buffer" =>
               /\ last.pre.buffer_end <= last.pre.index
               /\ last.res.tag # "Panic"
        /\ \A n \in Lens : MutSliceRead_read_to_buffer(self, n).res.tag # "Panic"

\* C16 happens: outside the clear_buffer protocol, with a gap between the
\* accumulated bytes and the cursor, read_to_buffer passed the assertion and
\* accumulated
C16_Witness ==
    /\ IsMut /\ last.op = "read_to_buffer" /\ last.res.tag = "Ok" /\ last.arg >= 1
    /\ proto.st = "none"
    /\ last.pre.buffer_start < last.pre.buffer_end
    /\ last.pre.buffer_end < last.pre.index

\* C17: on an IoRead over a channel that does not fail, the bytes handed to
\* the caller, in call order (the byte next returns, the bytes read_into
\* writes, the bytes read_to_buffer and read_either append, and the byte that
\* peek returned when discard drops it), are a prefix of the channel's bytes:
\* none skipped, repeated or out of order, the byte in ch going first
\* whichever call consumes next, read_into included.
C17_DeliveredInOrder ==
    (IsIo /\ self.reader.reader.end = "eof") =>
        /\ Len(delivered) <= Len(input)
        /\ delivered = SubSeq(input, 1, Len(delivered))

\* C18: a MutSliceRead and a SliceRead with feature std over the same bytes,
\* given the same calls, with every view_buffer coming after a clear_buffer
\* and no read_either in between: every call returns the same result on both
\* (byte, end of input, error and its offset, Borrowed bytes, view_buffer
\* bytes) and offset() is the same on both after every call.
C18_SameAsSliceRead ==
    twin.inscope =>
        /\ last.res = twin.res
        /\ MutSliceRead_offset(self) = SliceRead_offset(twin.self)

\* how many times the byte v occurs in seq
Count(seq, v) == Len(SelectSeq(seq, LAMBDA x : x = v))

\* C19: on a MutSliceRead a successful read_to_buffer(n) changes the region
\* only at the positions [buffer_end, index + n) (values before the call),
\* keeping there the same byte values the same number of times, and leaves
\* every position from index + n on (the unread input) as it was; every
\* other call, and every failing call, leaves the whole region as it was.
C19_RegionFrame ==
    IsMut =>
        /\ Len(self.slice) = Len(last.pre.slice)
        /\ IF last.op = "read_to_buffer" /\ last.res.tag = "Ok"
           THEN LET from == last.pre.buffer_end
                    to   == last.pre.index + last.arg
                IN  /\ \A i \in 1..Len(self.slice) :
                           (i <= from \/ i > to) => self.slice[i] = last.pre.slice[i]
                    /\ \A v \in Byte :
                           Count(SubSeq(self.slice, from + 1, to), v)
                               = Count(SubSeq(last.pre.slice, from + 1, to), v)
           ELSE self.slice = last.pre.slice

\* C19 happens: read_to_buffer moved bytes of the region while unread input
\* lay behind them
C19_Witness ==
    /\ IsMut /\ last.op = "read_to_buffer" /\ last.res.tag = "Ok"
    /\ self.slice # last.pre.slice
    /\ self.index < Len(self.slice)

\* C20: no call on any of the three readers panics, whatever the calls
\* before it and whatever its argument: not by a slice range out of bounds,
\* not by an overflow or underflow of a usize, not by a failed assertion.
C20_NoAbort == last.res.tag # "Panic"

====
